---- MODULE Spec2Model ----
(***************************************************************************)
(* Offline synchronization queue of rsu-mobile-surveyor.                   *)
(*                                                                         *)
(* The callers of the sync service (the useOffline hook, the               *)
(* OfflineIndicator component, the App-level NetInfo listener and the      *)
(* household form) are translated from their sources.  The sync service    *)
(* itself (src/services/sync/syncService.js) is not part of the sources;   *)
(* its operations are modelled from section 4.1 of the specification.      *)
(***************************************************************************)
EXTENDS Integers, Sequences, FiniteSets, TLC

\* ------------------------------------------------------------------ bounds
MaxItems == 3
MaxAttempts == 2
MaxDrains == 2
MaxPersons == 2
MaxVersions == 2
Steps == 4
MaxDocs == 2
MaxTime == 2

\* --------------------------------------------------------------- constants
\* useOffline options.autoSync default
HookAutoSync == TRUE
\* OfflineIndicator prop autoSync default
IndAutoSync == TRUE
\* useState(0): the pendingCount every first render starts from
InitialPendingCount == 0

VARIABLES
  queue,            \* durable store: the ordered list of queue items
  clock,            \* number of items enqueued so far (id / createdAt source)
  accepted,         \* ids of the items the backend has accepted
  failures,         \* per item id: number of remote calls that failed
  net,              \* the NetInfo state last delivered to the listeners
  backendUp,        \* whether a remote call made now succeeds
  drains,           \* outstanding processQueue / syncPendingData calls
  lastResult,       \* the summary last returned by a drain
  hook,             \* useOffline state
  ind,              \* OfflineIndicator state
  isAuthenticated,  \* App state
  formAlert,        \* HouseholdFormScreen: the alert handleSubmit last showed
  input,            \* scoring: the arguments of the next computation
  out,              \* scoring: what the last call returned
  cachedWeightingProfile,  \* ScoringService.cachedWeightingProfile
  assessments,      \* durable store: the assessment_<personId> entries
  fetched,          \* per person: the assessment the backend last returned
  today,            \* scoring: the date new Date() gives
  calls,            \* scoring: the last two local computations
  profileRequested, \* whether the last getWeightingProfile asked the backend
  storageUp,        \* whether AsyncStorage answers
  docs,             \* durable store: the offline_document_<time> entries
  dateNow,          \* the value Date.now() gives
  pass,             \* CameraService: the syncPendingDocuments call under way
  uploaded,         \* the images the backend has accepted
  saved             \* the images handed to _saveForOfflineSync so far

scoringVars == <<input, out, cachedWeightingProfile, assessments, fetched,
                 today, calls, profileRequested>>

cameraVars == <<storageUp, docs, dateNow, pass, uploaded, saved>>

syncVars == <<queue, clock, accepted, failures, net, backendUp, drains,
              lastResult, hook, ind, isAuthenticated, formAlert>>

vars == <<queue, clock, accepted, failures, net, backendUp, drains,
          lastResult, hook, ind, isAuthenticated, formAlert, input, out,
          cachedWeightingProfile, assessments, fetched, today, calls,
          profileRequested, storageUp, docs, dateNow, pass, uploaded, saved>>

Slots == 1..MaxDrains
Persons == 1..MaxPersons
\* null / undefined
Null == [kind |-> "null"]
\* NetInfo states: isInternetReachable is true, false or null (not yet
\* known); a disconnected device is never reported reachable.
NetStates ==
  { [isConnected |-> TRUE, isInternetReachable |-> "true"],
    [isConnected |-> TRUE, isInternetReachable |-> "false"],
    [isConnected |-> TRUE, isInternetReachable |-> "null"],
    [isConnected |-> FALSE, isInternetReachable |-> "false"] }

\* ------------------------------------------------------- sync service
\* QueueItem (spec 3): id, createdAt, status, attempts
NewItem(now) ==
  [id |-> now, createdAt |-> now, status |-> "PENDING", attempts |-> 0]

\* enqueue(item): assigns createdAt and PENDING, appends to the durable store
AddToQueue(q, now) == Append(q, NewItem(now))

\* an attempts cutoff: items that failed twice are given up
IsEligible_Capped(it) ==
  it.status \in {"PENDING", "FAILED"} /\ it.attempts < 2

IsEligible(it) == it.status \in {"PENDING", "FAILED"}

Eligible(q) == SelectSeq(q, IsEligible)

\* pendingCount(): number of items with status PENDING or FAILED
GetPendingCount(q) == Len(Eligible(q))

\* newest first
RECURSIVE InsertByCreatedAt_Desc(_, _)
InsertByCreatedAt_Desc(it, s) ==
  IF s = <<>> THEN <<it>>
  ELSE IF it.createdAt > Head(s).createdAt THEN <<it>> \o s
  ELSE <<Head(s)>> \o InsertByCreatedAt_Desc(it, Tail(s))

RECURSIVE InsertByCreatedAt(_, _)
InsertByCreatedAt(it, s) ==
  IF s = <<>> THEN <<it>>
  ELSE IF it.createdAt < Head(s).createdAt THEN <<it>> \o s
  ELSE <<Head(s)>> \o InsertByCreatedAt(it, Tail(s))

RECURSIVE SortByCreatedAt(_)
SortByCreatedAt(s) ==
  IF s = <<>> THEN <<>>
  ELSE InsertByCreatedAt(Head(s), SortByCreatedAt(Tail(s)))

\* the ids a drain works through: the eligible items in createdAt order
Snapshot(q) ==
  LET sorted == SortByCreatedAt(Eligible(q))
  IN [i \in 1..Len(sorted) |-> sorted[i].id]

QueueIds(q) == {q[i].id : i \in 1..Len(q)}

\* PENDING -> IN_FLIGHT
MarkInFlight(q, id) ==
  [i \in 1..Len(q) |->
     IF q[i].id = id THEN [q[i] EXCEPT !.status = "IN_FLIGHT"] ELSE q[i]]

\* a failed item is dropped from the queue
MarkFailed_Drops(q, id) == SelectSeq(q, LAMBDA it : it.id # id)

\* on failure: attempts + 1, status FAILED
MarkFailed(q, id) ==
  [i \in 1..Len(q) |->
     IF q[i].id = id
     THEN [q[i] EXCEPT !.status = "FAILED", !.attempts = q[i].attempts + 1]
     ELSE q[i]]

\* on success: the item is deleted
RemoveItem(q, id) == SelectSeq(q, LAMBDA it : it.id # id)

IdleDrain == [caller |-> "none", snap |-> <<>>, idx |-> 0, synced |-> 0, failed |-> 0]

Active(d) == drains[d].caller # "none"

NoResult == [caller |-> "none", success |-> TRUE, synced |-> 0, failed |-> 0, total |-> 0]

\* the summary a drain returns
Summary(dr) ==
  [caller |-> dr.caller, success |-> dr.failed = 0,
   synced |-> dr.synced, failed |-> dr.failed, total |-> Len(dr.snap)]

FreeSlots(ds) == {d \in Slots : ds[d].caller = "none"}

\* The part of the program state the handlers work on.
Mem == [queue |-> queue, drains |-> drains, lastResult |-> lastResult,
        hook |-> hook, ind |-> ind, ok |-> TRUE]

\* processQueue(), up to its first remote call
StartProcessQueue(M, caller) ==
  LET snap == Snapshot(M.queue)
  IN IF snap = <<>>
     THEN [M EXCEPT !.lastResult = Summary([IdleDrain EXCEPT !.caller = caller])]
     ELSE IF FreeSlots(M.drains) = {}
     THEN [M EXCEPT !.ok = FALSE]
     ELSE LET d == CHOOSE x \in FreeSlots(M.drains) :
                     \A y \in FreeSlots(M.drains) : x <= y
          IN [M EXCEPT !.queue = MarkInFlight(M.queue, snap[1]),
                       !.drains[d] = [caller |-> caller, snap |-> snap,
                                      idx |-> 1, synced |-> 0, failed |-> 0]]

\* ------------------------------------------------------- useOffline hook
HookInit ==
  [isConnected |-> TRUE, isInternetReachable |-> TRUE,
   pendingCount |-> InitialPendingCount, syncing |-> FALSE]

\* dependency list of the auto-sync effect
HookDeps(h) == <<h.isConnected, h.isInternetReachable, h.pendingCount>>

\* condition of the auto-sync effect
HookAutoSyncCond(h) ==
  h.isConnected /\ h.isInternetReachable /\ HookAutoSync
    /\ h.pendingCount > 0 /\ ~h.syncing

HookLoadPendingCount(M) ==
  [M EXCEPT !.hook.pendingCount = GetPendingCount(M.queue)]

RECURSIVE HookSyncQueue(_, _)
RECURSIVE HookEffect(_, _, _)
RECURSIVE HookSyncReturn(_, _)

\* the auto-sync effect, run after a render whose dependencies changed
HookEffect(M, before, batched) ==
  IF HookDeps(M.hook) # HookDeps(before) /\ HookAutoSyncCond(M.hook)
  THEN HookSyncQueue(M, batched)
  ELSE M

\* syncQueue up to the await of processQueue
HookSyncQueue(M, batched) ==
  IF ~M.hook.isConnected \/ ~M.hook.isInternetReachable
  THEN M
  ELSE LET M1 == [M EXCEPT !.hook.syncing = TRUE]
           M2 == StartProcessQueue(M1, "hook")
       IN IF M2.drains = M1.drains /\ M2.ok
          THEN HookSyncReturn(M2, batched)
          ELSE M2

\* syncQueue after processQueue has returned: loadPendingCount, then the
\* finally block.  The two state updates are rendered together (batched)
\* or one after the other, depending on the React build.
HookSyncReturn(M, batched) ==
  LET before == M.hook
      M1 == HookLoadPendingCount(M)
  IN IF batched
     THEN HookEffect([M1 EXCEPT !.hook.syncing = FALSE], before, batched)
     ELSE LET M2 == HookEffect(M1, before, batched)
          IN [M2 EXCEPT !.hook.syncing = FALSE]

\* the exception leaves syncQueue: nothing is returned, syncing stays set
HookSyncCatch_Rethrow(M) ==
  [M EXCEPT !.lastResult = [caller |-> "hook", raised |-> TRUE]]

\* the catch and finally blocks of syncQueue, entered when processQueue rejects
HookSyncCatch(M) ==
  [M EXCEPT !.lastResult = [caller |-> "hook", success |-> FALSE, error |-> "message"],
            !.hook.syncing = FALSE]

HookHandleConnectionChange(M, s, batched) ==
  LET M1 == [M EXCEPT !.hook.isConnected = s.isConnected,
                      !.hook.isInternetReachable = (s.isInternetReachable # "false")]
  IN HookEffect(M1, M.hook, batched)

\* --------------------------------------------------- OfflineIndicator
IndInit == [isConnected |-> TRUE, pendingCount |-> InitialPendingCount, syncing |-> FALSE]

IndLoadPendingCount(M) ==
  [M EXCEPT !.ind.pendingCount = GetPendingCount(M.queue)]

\* handleSync after processQueue has returned
IndSyncReturn(M) ==
  LET M1 == IF M.lastResult.success THEN IndLoadPendingCount(M) ELSE M
  IN [M1 EXCEPT !.ind.syncing = FALSE]

\* handleSync as seen by a closure whose isConnected is closureConnected
IndHandleSync(M, closureConnected) ==
  IF ~closureConnected
  THEN M
  ELSE LET M1 == [M EXCEPT !.ind.syncing = TRUE]
           M2 == StartProcessQueue(M1, "indicator")
       IN IF M2.drains = M1.drains /\ M2.ok
          THEN IndSyncReturn(M2)
          ELSE M2

\* The listener is registered once, by the mount effect: it is the
\* handleConnectionChange of the first render, whose pendingCount and
\* isConnected are the initial state values.
IndHandleConnectionChange(M, s) ==
  LET connected == s.isConnected /\ s.isInternetReachable # "false"
      M1 == [M EXCEPT !.ind.isConnected = connected]
  IN IF connected /\ IndAutoSync /\ IndInit.pendingCount > 0
     THEN IndHandleSync(M1, IndInit.isConnected)
     ELSE M1

\* ---------------------------------------------------------------- App
\* the NetInfo listener of App: syncPendingData when connected and logged in
AppHandleConnectionChange(M, s, auth) ==
  IF s.isConnected /\ auth
  THEN StartProcessQueue(M, "app")
  ELSE M

\* ------------------------------------------------ drain, item by item
\* what the caller does when its drain returns
DrainReturn(M, dr, batched) ==
  LET M1 == [M EXCEPT !.lastResult = Summary(dr)]
  IN CASE dr.caller = "hook" -> HookSyncReturn(M1, batched)
       [] dr.caller = "indicator" -> IndSyncReturn(M1)
       [] OTHER -> M1

\* the remote call of the item in flight has completed
DrainStep(M, d, success, batched) ==
  LET dr == M.drains[d]
      id == dr.snap[dr.idx]
      q1 == IF success THEN RemoveItem(M.queue, id) ELSE MarkFailed(M.queue, id)
      dr1 == IF success THEN [dr EXCEPT !.synced = dr.synced + 1]
                        ELSE [dr EXCEPT !.failed = dr.failed + 1]
  IN IF dr.idx < Len(dr.snap)
     THEN [M EXCEPT !.queue = MarkInFlight(q1, dr.snap[dr.idx + 1]),
                    !.drains[d] = [dr1 EXCEPT !.idx = dr.idx + 1]]
     ELSE DrainReturn([M EXCEPT !.queue = q1, !.drains[d] = IdleDrain], dr1, batched)

\* ------------------------------------------- scoring, five dimensions
\* Dimension scores are whole points.  A weighted score is held in
\* hundredths of a point, so that 0.30 * 85 is 30 * 85 = 2550; every sum
\* the service forms is a multiple of 0.25 and is represented exactly.
\* A field that is not set is held as its falsy value (0, FALSE, "" or
\* NoDate): the service reads every field through "|| default", "!x",
\* "?." or a truthiness test, which treat the two alike.

\* WEIGHTS, in hundredths
WEIGHTS ==
  [economic |-> 30, housing |-> 25, health |-> 20, education |-> 15, social |-> 10]

THRESHOLDS == [CRITICAL |-> 75, HIGH |-> 50, MODERATE |-> 25, LOW |-> 0]

Min(a, b) == IF a < b THEN a ELSE b

\* x || d
OrElse(x, d) == IF x = 0 THEN d ELSE x

\* String.prototype.toLowerCase, on the words the inputs use
toLowerCase(s) ==
  CASE s = "Chomeur" -> "chomeur"
    [] s = "Aucun" -> "aucun"
    [] s = "Precaire" -> "precaire"
    [] OTHER -> s

\* s.includes(w): the inputs use one keyword, or another word, per field
Includes(s, w) == s = w

\* the dates of two days that follow each other
Day1 == [year |-> 2025, month |-> 6, day |-> 15]
Day2 == [year |-> 2025, month |-> 6, day |-> 16]

\* new Date(), and a birthDate that is not set
Today == today
NoDate == [year |-> 0, month |-> 0, day |-> 0]

calculateAge(birthDate) ==
  IF birthDate = NoDate THEN 0
  ELSE LET age == Today.year - birthDate.year
           monthDiff == Today.month - birthDate.month
       IN IF monthDiff < 0 \/ (monthDiff = 0 /\ Today.day < birthDate.day)
          THEN age - 1 ELSE age

calculateEconomicScore(person, household) ==
  LET income == household.monthlyIncome
      householdSize == OrElse(household.householdSize, 1)
      occupation == toLowerCase(person.occupationStatus)
      dependents == household.dependents
  IN Min(100,
         (IF income = 0 THEN 40
          ELSE IF income < 150000 * householdSize THEN 35
          ELSE IF income < 300000 * householdSize THEN 25
          ELSE 10)
       + (IF Includes(occupation, "chomeur") \/ Includes(occupation, "unemployed") THEN 25
          ELSE IF Includes(occupation, "informel") \/ Includes(occupation, "informal") THEN 15
          ELSE IF Includes(occupation, "journalier") \/ Includes(occupation, "daily") THEN 20
          ELSE 5)
       + (IF dependents >= 5 THEN 20
          ELSE IF dependents >= 3 THEN 15
          ELSE IF dependents >= 1 THEN 10
          ELSE 0)
       + (IF ~household.hasSavings THEN 15 ELSE 0))

calculateHousingScore(household) ==
  LET housingType == toLowerCase(household.housingType)
      householdSize == OrElse(household.householdSize, 1)
      rooms == OrElse(household.numberOfRooms, 1)
  IN Min(100,
         (IF Includes(housingType, "precaire") \/ Includes(housingType, "precarious") THEN 30
          ELSE IF Includes(housingType, "case") \/ Includes(housingType, "traditional") THEN 20
          ELSE IF Includes(housingType, "location") \/ Includes(housingType, "rent") THEN 15
          ELSE 5)
       + (IF ~household.hasElectricity THEN 20 ELSE 0)
       + (IF ~household.hasRunningWater THEN 20 ELSE 0)
       + (IF householdSize >= 4 * rooms THEN 15
          ELSE IF householdSize >= 3 * rooms THEN 10
          ELSE IF householdSize >= 2 * rooms THEN 5
          ELSE 0)
       + (IF ~household.hasToilet THEN 15 ELSE 0))

calculateHealthScore(person, household) ==
  LET healthDistance == household.healthCenterDistance
  IN Min(100,
         (IF person.hasChronicIllness \/ household.hasChronicIllness THEN 25 ELSE 0)
       + (IF person.hasDisability \/ household.hasDisability THEN 20 ELSE 0)
       + (IF ~household.hasHealthInsurance THEN 20 ELSE 0)
       + (IF household.hasMalnutrition THEN 20 ELSE 0)
       + (IF healthDistance >= 10 THEN 15
          ELSE IF healthDistance >= 5 THEN 10
          ELSE 0))

calculateEducationScore(person, household) ==
  LET education == toLowerCase(person.educationLevel)
      childrenOutOfSchool == household.childrenOutOfSchool
  IN Min(100,
         (IF Includes(education, "aucun") \/ Includes(education, "none") THEN 30
          ELSE IF Includes(education, "primaire") \/ Includes(education, "primary") THEN 20
          ELSE IF Includes(education, "secondaire") \/ Includes(education, "secondary") THEN 10
          ELSE 0)
       + (IF person.isIlliterate THEN 25 ELSE 0)
       + (IF childrenOutOfSchool >= 2 THEN 25
          ELSE IF childrenOutOfSchool = 1 THEN 15
          ELSE 0)
       + (IF household.hasUnpaidSchoolFees THEN 20 ELSE 0))

\* "age >= 65 && householdSize === 1": calculateSocialScore declares no
\* householdSize, so evaluating the right operand is a ReferenceError; the
\* left operand alone decides whether it is evaluated.
calculateSocialScoreRaises(person, household) ==
  calculateAge(person.birthDate) >= 65

\* the points added when the function gets to its return (the
\* elderly-alone points are never added: reaching them raises)
calculateSocialScore(person, household) ==
  Min(100,
      (IF household.isSociallyIsolated THEN 30 ELSE 0)
    + (IF household.isSingleParent THEN 25 ELSE 0)
    + (IF ~household.hasFamilySupport THEN 20 ELSE 0))

calculateDimensionScores(person, household) ==
  [economic |-> calculateEconomicScore(person, household),
   housing |-> calculateHousingScore(household),
   health |-> calculateHealthScore(person, household),
   education |-> calculateEducationScore(person, household),
   social |-> calculateSocialScore(person, household)]

\* the result is in hundredths of a point
calculateWeightedScore(dimensionScores) ==
  dimensionScores.economic * WEIGHTS.economic
    + dimensionScores.housing * WEIGHTS.housing
    + dimensionScores.health * WEIGHTS.health
    + dimensionScores.education * WEIGHTS.education
    + dimensionScores.social * WEIGHTS.social

\* score in hundredths of a point
determineRiskLevel(score) ==
  IF score >= 100 * THRESHOLDS.CRITICAL THEN "CRITICAL"
  ELSE IF score >= 100 * THRESHOLDS.HIGH THEN "HIGH"
  ELSE IF score >= 100 * THRESHOLDS.MODERATE THEN "MODERATE"
  ELSE "LOW"

\* Math.round of a score in hundredths: the nearest whole point, halves up
MathRound(score) == (score + 50) \div 100

If(c, s) == IF c THEN <<s>> ELSE <<>>

SeqIncludes(s, x) == \E i \in 1..Len(s) : s[i] = x

identifyRiskFactors(person, household) ==
     If(household.monthlyIncome < 150000, "extreme_poverty")
  \o If(Includes(person.occupationStatus, "chomeur"), "unemployment")
  \o If(household.dependents >= 3, "multiple_dependents")
  \o If(~household.hasElectricity, "no_electricity")
  \o If(~household.hasRunningWater, "no_water")
  \o If(Includes(household.housingType, "precaire"), "precarious_housing")
  \o If(person.hasChronicIllness, "chronic_illness")
  \o If(person.hasDisability, "disability")
  \o If(~household.hasHealthInsurance, "no_health_insurance")
  \o If(Includes(person.educationLevel, "aucun"), "no_education")
  \o If(household.childrenOutOfSchool > 0, "children_out_of_school")
  \o If(household.isSingleParent, "single_parent")
  \o If(household.isSociallyIsolated, "social_isolation")

\* a factor-specific recommendation repeats one of the HIGH baseline
generateRecommendations_Repeat(riskLevel, factors) ==
     (CASE riskLevel = "CRITICAL" ->
             <<"Priorite 1: Assistance immediate requise",
               "Inscription urgente aux programmes sociaux",
               "Suivi rapproche mensuel">>
        [] riskLevel = "HIGH" ->
             <<"Priorite 2: Intervention necessaire",
               "Evaluation approfondie des besoins",
               "Orientation vers programmes adaptes">>
        [] riskLevel = "MODERATE" ->
             <<"Priorite 3: Surveillance reguliere",
               "Acces aux services de prevention">>
        [] riskLevel = "LOW" -> <<"Suivi standard">>
        [] OTHER -> <<>>)
  \o If(SeqIncludes(factors, "unemployment"), "Orientation vers programmes adaptes")
  \o If(SeqIncludes(factors, "no_education"), "Programme alphabetisation")
  \o If(SeqIncludes(factors, "children_out_of_school"), "Aide a la scolarisation")
  \o If(SeqIncludes(factors, "chronic_illness"), "Couverture sante prioritaire")

generateRecommendations(riskLevel, factors) ==
     (CASE riskLevel = "CRITICAL" ->
             <<"Priorite 1: Assistance immediate requise",
               "Inscription urgente aux programmes sociaux",
               "Suivi rapproche mensuel">>
        [] riskLevel = "HIGH" ->
             <<"Priorite 2: Intervention necessaire",
               "Evaluation approfondie des besoins",
               "Orientation vers programmes adaptes">>
        [] riskLevel = "MODERATE" ->
             <<"Priorite 3: Surveillance reguliere",
               "Acces aux services de prevention">>
        [] riskLevel = "LOW" -> <<"Suivi standard">>
        [] OTHER -> <<>>)
  \o If(SeqIncludes(factors, "unemployment"), "Programme insertion professionnelle")
  \o If(SeqIncludes(factors, "no_education"), "Programme alphabetisation")
  \o If(SeqIncludes(factors, "children_out_of_school"), "Aide a la scolarisation")
  \o If(SeqIncludes(factors, "chronic_illness"), "Couverture sante prioritaire")

\* what a call that throws leaves its caller with
Thrown(message) == [kind |-> "thrown", message |-> message]

\* calculateVulnerabilityScore(personData, householdData); a null person
\* is the malformed input: reading its fields is a TypeError
calculateVulnerabilityScore(person, household) ==
  IF person = Null \/ calculateSocialScoreRaises(person, household)
  THEN Thrown("Impossible de calculer le score de vulnerabilite")
  ELSE LET dimensionScores == calculateDimensionScores(person, household)
           globalScore == calculateWeightedScore(dimensionScores)
           riskLevel == determineRiskLevel(globalScore)
           riskFactors == identifyRiskFactors(person, household)
       IN [kind |-> "assessment",
           score |-> MathRound(globalScore),
           level |-> riskLevel,
           dimensions |-> dimensionScores,
           factors |-> riskFactors,
           recommendations |-> generateRecommendations(riskLevel, riskFactors)]

\* ------------------------------------------- scoring, four dimensions
\* Weights are held in tenths of a percent (30.0 is 300), dimension scores
\* in whole points, the weighted total in thousandths of a point, and the
\* fields toFixed(2) produces in hundredths.

DEFAULT_WEIGHTING_PROFILE ==
  [household_composition_weight |-> 300,
   economic_vulnerability_weight |-> 350,
   social_vulnerability_weight |-> 200,
   health_vulnerability_weight |-> 150]

RISK_THRESHOLDS == [CRITICAL |-> 80, HIGH |-> 60, MODERATE |-> 40, LOW |-> 0]

\* String.prototype.toUpperCase, on the words the inputs use
toUpperCase(s) ==
  CASE s = "unemployed" -> "UNEMPLOYED"
    [] s = "none" -> "NONE"
    [] OTHER -> s

\* dependency_ratio is held in tenths
_calculateHouseholdCompositionScore(householdData) ==
  IF householdData = Null THEN 0
  ELSE LET householdSize == householdData.household_size
           dependencyRatio == householdData.dependency_ratio
       IN Min((IF householdSize >= 10 THEN 30
               ELSE IF householdSize >= 7 THEN 25
               ELSE IF householdSize >= 5 THEN 20
               ELSE IF householdSize >= 3 THEN 10
               ELSE 0)
            + (IF householdData.has_disabled_members THEN 15 ELSE 0)
            + (IF householdData.has_elderly_members THEN 10 ELSE 0)
            + (IF householdData.has_children_under_5 THEN 10 ELSE 0)
            + (IF householdData.has_pregnant_women THEN 5 ELSE 0)
            + (IF dependencyRatio >= 20 THEN 30
               ELSE IF dependencyRatio >= 15 THEN 20
               ELSE IF dependencyRatio >= 10 THEN 10
               ELSE 0),
              100)

\* householdData?.x || d
Opt(householdData, f, d) ==
  IF householdData = Null THEN d ELSE OrElse(householdData[f], d)

_calculateEconomicVulnerabilityScore(personData, householdData) ==
  LET employmentStatus == toUpperCase(personData.employment_status)
      income == Opt(householdData, "total_monthly_income", 0)
      householdSize == Opt(householdData, "household_size", 1)
      housingType == IF householdData = Null THEN "" ELSE householdData.housing_type
  IN Min((IF employmentStatus = "UNEMPLOYED" THEN 40
          ELSE IF employmentStatus = "INFORMAL" THEN 30
          ELSE IF employmentStatus = "TEMPORARY" THEN 20
          ELSE 0)
       + (IF income < 50000 * householdSize THEN 40
          ELSE IF income < 100000 * householdSize THEN 30
          ELSE IF income < 150000 * householdSize THEN 20
          ELSE IF income < 200000 * householdSize THEN 10
          ELSE 0)
       + (IF housingType = "PRECARIOUS" \/ housingType = "HOMELESS" THEN 20
          ELSE IF housingType = "SHARED" THEN 10
          ELSE 0),
         100)

_calculateSocialVulnerabilityScore(personData) ==
  LET educationLevel == toUpperCase(personData.education_level)
  IN Min((IF educationLevel = "NONE" THEN 30
          ELSE IF educationLevel = "PRIMARY" THEN 20
          ELSE IF educationLevel = "SECONDARY" THEN 10
          ELSE 0)
       + (IF personData.gender = "F"
          THEN 10 + (IF personData.marital_status = "WIDOWED"
                        \/ personData.marital_status = "DIVORCED"
                     THEN 10 ELSE 0)
          ELSE 0)
       + (IF personData.marital_status = "WIDOWED" THEN 15
          ELSE IF personData.marital_status = "DIVORCED"
                    \/ personData.marital_status = "SEPARATED" THEN 10
          ELSE 0)
       + (IF personData.disability_status = "YES" THEN 30
          ELSE IF personData.disability_status = "PARTIAL" THEN 15
          ELSE 0),
         100)

_calculateHealthVulnerabilityScore(personData, householdData) ==
  LET age == personData.age
  IN Min((IF personData.disability_status = "YES" THEN 40
          ELSE IF personData.disability_status = "PARTIAL" THEN 20
          ELSE 0)
       + (IF age >= 70 THEN 30
          ELSE IF age >= 60 THEN 20
          ELSE IF age <= 5 THEN 25
          ELSE 0)
       + (IF householdData # Null /\ householdData.has_disabled_members THEN 30 ELSE 0),
         100)

\* score in thousandths of a point
_determineRiskLevel(score) ==
  IF score >= 1000 * RISK_THRESHOLDS.CRITICAL THEN "CRITICAL"
  ELSE IF score >= 1000 * RISK_THRESHOLDS.HIGH THEN "HIGH"
  ELSE IF score >= 1000 * RISK_THRESHOLDS.MODERATE THEN "MODERATE"
  ELSE "LOW"

\* totalScore in thousandths of a point, the dimension scores in points
_generateRecommendations(totalScore, householdScore, economicScore, socialScore, healthScore) ==
     (IF economicScore >= 60
      THEN <<"CASH_TRANSFER_PROGRAM", "VOCATIONAL_TRAINING">> ELSE <<>>)
  \o (IF healthScore >= 50
      THEN <<"HEALTH_INSURANCE", "DISABILITY_SUPPORT">> ELSE <<>>)
  \o (IF socialScore >= 50
      THEN <<"EDUCATION_SUPPORT", "LITERACY_PROGRAM">> ELSE <<>>)
  \o (IF householdScore >= 60
      THEN <<"HOUSING_ASSISTANCE", "CHILDCARE_SUPPORT">> ELSE <<>>)
  \o (IF totalScore >= 1000 * RISK_THRESHOLDS.CRITICAL
      THEN <<"PRIORITY_PROGRAM_ENROLLMENT", "INTENSIVE_CASE_MANAGEMENT">> ELSE <<>>)

\* x.toFixed(2): thousandths to the nearest hundredth, halves up
toFixed2(x) == (x + 5) \div 10

\* the first weight applied to every score
totalScore_FirstWeight(householdScore, economicScore, socialScore, healthScore, weights) ==
  (householdScore + economicScore + socialScore + healthScore)
    * weights.household_composition_weight

\* the weighted sum of calculateScoreLocally, in thousandths of a point
totalScore(householdScore, economicScore, socialScore, healthScore, weights) ==
  householdScore * weights.household_composition_weight
    + economicScore * weights.economic_vulnerability_weight
    + socialScore * weights.social_vulnerability_weight
    + healthScore * weights.health_vulnerability_weight

\* the answers of GET .../weighting-profile/: a body, an empty body, an error
ProfileData(profile) == [kind |-> "data", data |-> profile]
ProfileEmpty == [kind |-> "empty"]
ProfileError == [kind |-> "error"]

\* the default is stored in the cache when the fetch gave nothing
getWeightingProfile_CachesDefault(cached, response) ==
  IF cached # Null
  THEN [profile |-> cached, cache |-> cached, requested |-> FALSE]
  ELSE IF response.kind = "data"
  THEN [profile |-> response.data, cache |-> response.data, requested |-> TRUE]
  ELSE [profile |-> DEFAULT_WEIGHTING_PROFILE, cache |-> DEFAULT_WEIGHTING_PROFILE,
        requested |-> TRUE]

\* the fetch error is not caught, an empty body is returned as it is
getWeightingProfile_NoFallback(cached, response) ==
  IF cached # Null
  THEN [profile |-> cached, cache |-> cached, requested |-> FALSE]
  ELSE IF response.kind = "data"
  THEN [profile |-> response.data, cache |-> response.data, requested |-> TRUE]
  ELSE IF response.kind = "empty"
  THEN [profile |-> Null, cache |-> cached, requested |-> TRUE]
  ELSE [profile |-> Thrown("message"), cache |-> cached, requested |-> TRUE]

\* getWeightingProfile with cachedWeightingProfile = cached, when the
\* backend would answer response: the profile returned, the cache left
\* behind, and whether the request was made
getWeightingProfile(cached, response) ==
  IF cached # Null
  THEN [profile |-> cached, cache |-> cached, requested |-> FALSE]
  ELSE IF response.kind = "data"
  THEN [profile |-> response.data, cache |-> response.data, requested |-> TRUE]
  ELSE [profile |-> DEFAULT_WEIGHTING_PROFILE, cache |-> cached, requested |-> TRUE]

\* calculateScoreLocally: the value returned (or thrown) and the cache
\* left behind; a null person is the malformed input (TypeError)
calculateScoreLocally(personData, householdData, cached, response) ==
  LET got == getWeightingProfile(cached, response)
      weights == got.profile
  IN IF personData = Null
     THEN [result |-> Thrown("TypeError"), cache |-> got.cache,
           profile |-> weights, requested |-> got.requested]
     ELSE
       LET householdScore == _calculateHouseholdCompositionScore(householdData)
           economicScore == _calculateEconomicVulnerabilityScore(personData, householdData)
           socialScore == _calculateSocialVulnerabilityScore(personData)
           healthScore == _calculateHealthVulnerabilityScore(personData, householdData)
           total == totalScore(householdScore, economicScore, socialScore,
                               healthScore, weights)
       IN [result |->
             [kind |-> "assessment",
              vulnerability_score |-> toFixed2(total),
              risk_level |-> _determineRiskLevel(total),
              household_composition_score |-> toFixed2(1000 * householdScore),
              economic_vulnerability_score |-> toFixed2(1000 * economicScore),
              social_vulnerability_score |-> toFixed2(1000 * socialScore),
              health_vulnerability_score |-> toFixed2(1000 * healthScore),
              recommendations |->
                _generateRecommendations(total, householdScore, economicScore,
                                         socialScore, healthScore),
              calculated_offline |-> TRUE],
           cache |-> got.cache, profile |-> weights, requested |-> got.requested]

\* ------------------------------------------------ storage service
\* The durable store is a map from key to text, Null where nothing is
\* stored.  up tells whether AsyncStorage answers the call or rejects it.
\* Every operation gives the completion of the call (what it returned, or
\* Thrown) and the store it leaves behind.
Returned(value) == [kind |-> "returned", value |-> value]

\* the values returned: true or false, an array of keys, undefined (a
\* text and null are records already)
Bool(b) == [boolean |-> b]
Keys(list) == [keys |-> list]
Undefined == [kind |-> "undefined"]

\* the AsyncStorage rejection leaves setItem
setItem_Rethrow(store, up, key, value) ==
  IF up
  THEN [result |-> Returned(Bool(TRUE)), store |-> [store EXCEPT ![key] = value]]
  ELSE [result |-> Thrown("message"), store |-> store]

setItem(store, up, key, value) ==
  IF up
  THEN [result |-> Returned(Bool(TRUE)), store |-> [store EXCEPT ![key] = value]]
  ELSE [result |-> Returned(Bool(FALSE)), store |-> store]

getItem(store, up, key) ==
  IF up
  THEN [result |-> Returned(store[key]), store |-> store]
  ELSE [result |-> Returned(Null), store |-> store]

removeItem(store, up, key) ==
  IF up
  THEN [result |-> Returned(Bool(TRUE)), store |-> [store EXCEPT ![key] = Null]]
  ELSE [result |-> Returned(Bool(FALSE)), store |-> store]

\* the keys are given as a set: the order of the array is AsyncStorage's
getAllKeys(store, up) ==
  IF up
  THEN [result |-> Returned(Keys({k \in DOMAIN store : store[k] # Null})), store |-> store]
  ELSE [result |-> Returned(Keys({})), store |-> store]

clear(store, up) ==
  IF up
  THEN [result |-> Returned(Bool(TRUE)), store |-> [k \in DOMAIN store |-> Null]]
  ELSE [result |-> Returned(Bool(FALSE)), store |-> store]

\* ------------------------------------------------ assessment cache
\* one key for everybody
AssessmentKey_Shared(personId) == <<"assessment_", 0>>

\* `assessment_${personId}`
AssessmentKey(personId) == <<"assessment_", personId>>

AssessmentKeys == {AssessmentKey(p) : p \in Persons}

\* JSON text is held as a record wrapping the value it encodes
JSONstringify(value) == [json |-> value]
JSONparse(text) == text.json

\* the value setItem returns is not looked at
_cacheAssessment(store, personId, assessment) ==
  setItem(store, storageUp, AssessmentKey(personId), JSONstringify(assessment)).store

_getCachedAssessment(store, personId) ==
  LET cached == getItem(store, storageUp, AssessmentKey(personId)).result.value
  IN IF cached # Null THEN JSONparse(cached) ELSE Null

\* the answers of POST .../calculate/: a body, an empty body, an error
CalcData(assessment) == [kind |-> "data", data |-> assessment]
CalcEmpty == [kind |-> "empty"]
CalcError == [kind |-> "error"]

\* calculateVulnerabilityScore(personId, forceRecalculate) when the backend
\* answers response: the value returned and the store left behind
calculateVulnerabilityScoreById(store, personId, response) ==
  IF response.kind = "data"
  THEN [result |-> [success |-> TRUE, assessment |-> response.data],
        store |-> _cacheAssessment(store, personId, response.data)]
  ELSE IF response.kind = "empty"
  THEN [result |-> [success |-> FALSE, error |-> "Reponse API invalide"],
        store |-> store]
  ELSE LET cached == _getCachedAssessment(store, personId)
       IN IF cached # Null
          THEN [result |-> [success |-> TRUE, assessment |-> cached, fromCache |-> TRUE],
                store |-> store]
          ELSE [result |-> [success |-> FALSE, error |-> "message"],
                store |-> store]

\* ------------------------------------------------ camera service
\* An image is known by its number; the clock is Date.now().
Images == 1..MaxDocs
Times == 1..MaxTime

\* `offline_document_${Date.now()}`
DocKey(t) == <<"offline_document_", t>>

DocKeys == {DocKey(t) : t \in Times}

\* the answers of POST .../upload-document/: a body, an empty body, an error
UploadAnswers == {"data", "empty", "error"}

\* the entry is written under the key of the clock; what setItem returns
\* is not looked at
_saveForOfflineSync(store, t, image, personId) ==
  setItem(store, storageUp, DocKey(t),
          JSONstringify([image |-> image, personId |-> personId,
                         timestamp |-> t, synced |-> FALSE])).store

\* uploadDocument(image, personId) at time t, the backend answering answer
uploadDocument(store, t, image, personId, answer) ==
  CASE answer = "data" ->
         [result |-> [success |-> TRUE, document_id |-> image], store |-> store]
    [] answer = "empty" ->
         [result |-> [success |-> FALSE, error |-> "Reponse serveur invalide"],
          store |-> store]
    [] OTHER ->
         [result |-> [success |-> FALSE, error |-> "message", savedOffline |-> TRUE],
          store |-> _saveForOfflineSync(store, t, image, personId)]

\* the keys found, oldest first
RECURSIVE KeysInOrder(_, _)
KeysInOrder(keys, t) ==
  IF t > MaxTime THEN <<>>
  ELSE (IF DocKey(t) \in keys THEN <<DocKey(t)>> ELSE <<>>) \o KeysInOrder(keys, t + 1)

\* getPendingDocuments(): the offline_document_ entries that can be read
getPendingDocuments(store) ==
  LET allKeys == getAllKeys(store, storageUp).result.value.keys
      documentKeys == KeysInOrder(allKeys \cap DocKeys, 1)
      Read(key) == getItem(store, storageUp, key).result.value
      readable == SelectSeq(documentKeys, LAMBDA key : Read(key) # Null)
  IN [i \in 1..Len(readable) |->
        [key |-> readable[i], data |-> JSONparse(Read(readable[i]))]]

\* no syncPendingDocuments call is under way
IdlePass == [active |-> FALSE, pendingDocs |-> <<>>, idx |-> 0, synced |-> 0, failed |-> 0]

\* the images stored under some offline_document_ key, and their keys
KeysOf(store, image) ==
  {k \in DocKeys : store[k] # Null /\ JSONparse(store[k]).image = image}

StoredKeys(store) == {k \in DocKeys : store[k] # Null}

\* ------------------------------------------------------------ actions
Commit(M) ==
  /\ M.ok
  /\ queue' = M.queue
  /\ drains' = M.drains
  /\ lastResult' = M.lastResult
  /\ hook' = M.hook
  /\ ind' = M.ind

\* the sync side after start-up: nothing queued, the components just mounted
SyncInit ==
  /\ queue = <<>>
  /\ clock = 0
  /\ accepted = {}
  /\ failures = [i \in 1..MaxItems |-> 0]
  /\ net = [isConnected |-> TRUE, isInternetReachable |-> "true"]
  /\ backendUp = TRUE
  /\ drains = [d \in Slots |-> IdleDrain]
  /\ lastResult = NoResult
  /\ hook = HookInit
  /\ ind = IndInit
  /\ isAuthenticated = FALSE
  /\ formAlert = "none"

\* the scoring service after construction, nothing cached in the store
ScoringInit ==
  /\ cachedWeightingProfile = Null
  /\ assessments = [k \in AssessmentKeys |-> Null]
  /\ fetched = [p \in Persons |-> Null]
  /\ out = Null
  /\ today = Day1
  /\ calls = <<>>
  /\ profileRequested = FALSE

\* the store answers, no document was saved, no pass is under way
CameraInit ==
  /\ storageUp = TRUE
  /\ docs = [k \in DocKeys |-> Null]
  /\ dateNow = 1
  /\ pass = IdlePass
  /\ uploaded = {}
  /\ saved = {}

Init ==
  /\ SyncInit
  /\ ScoringInit
  /\ CameraInit
  /\ input = Null

\* NetInfo delivers a state to the listeners: the one of App and those of
\* the mounted components
NetEvent(s, mounted) ==
  /\ net' = s
  /\ \E batched \in BOOLEAN :
       LET M1 == IF "ind" \in mounted THEN IndHandleConnectionChange(Mem, s) ELSE Mem
           M2 == AppHandleConnectionChange(M1, s, isAuthenticated)
           M3 == IF "hook" \in mounted
                 THEN HookHandleConnectionChange(M2, s, batched) ELSE M2
       IN Commit(M3)
  /\ UNCHANGED <<clock, accepted, failures, backendUp, isAuthenticated>>
  /\ UNCHANGED <<formAlert, scoringVars, cameraVars>>

ToggleBackend ==
  /\ backendUp' = ~backendUp
  /\ UNCHANGED <<queue, clock, accepted, failures, net, drains, lastResult,
                 hook, ind, isAuthenticated>>
  /\ UNCHANGED <<formAlert, scoringVars, cameraVars>>

\* App.handleLogin / initializeApp found a token
Login ==
  /\ ~isAuthenticated
  /\ isAuthenticated' = TRUE
  /\ UNCHANGED <<queue, clock, accepted, failures, net, backendUp, drains,
                 lastResult, hook, ind>>
  /\ UNCHANGED <<formAlert, scoringVars, cameraVars>>

\* useOffline: loadPendingCount, from the mount effect or the interval
HookRefresh ==
  /\ \E batched \in BOOLEAN :
       Commit(HookEffect(HookLoadPendingCount(Mem), hook, batched))
  /\ UNCHANGED <<clock, accepted, failures, net, backendUp, isAuthenticated>>
  /\ UNCHANGED <<formAlert, scoringVars, cameraVars>>

\* OfflineIndicator: loadPendingCount, from the mount effect or the interval
IndRefresh ==
  /\ Commit(IndLoadPendingCount(Mem))
  /\ UNCHANGED <<clock, accepted, failures, net, backendUp, isAuthenticated>>
  /\ UNCHANGED <<formAlert, scoringVars, cameraVars>>

\* useOffline.addToQueue
HookAddToQueue ==
  /\ clock < MaxItems
  /\ clock' = clock + 1
  /\ \E batched \in BOOLEAN :
       Commit(HookEffect(
                HookLoadPendingCount([Mem EXCEPT !.queue = AddToQueue(queue, clock + 1)]),
                hook, batched))
  /\ UNCHANGED <<accepted, failures, net, backendUp, isAuthenticated>>
  /\ UNCHANGED <<formAlert, scoringVars, cameraVars>>

\* the alert handleSubmit ends with: GPS missing, POST accepted, POST failed
SubmitAlert(gps, posted) ==
  IF ~gps THEN "GPS Requis"
  ELSE IF posted THEN "Succes" ELSE "Sauvegarde Offline"

\* the record is queued twice when the POST failed
HandleSubmit_Twice(gps) ==
  /\ clock < MaxItems
  /\ IF gps /\ ~backendUp
     THEN /\ clock' = clock + 1
          /\ queue' = AddToQueue(AddToQueue(queue, clock + 1), clock + 1)
     ELSE UNCHANGED <<clock, queue>>
  /\ formAlert' = SubmitAlert(gps, backendUp)
  /\ UNCHANGED <<accepted, failures, net, backendUp, drains, lastResult,
                 hook, ind, isAuthenticated>>
  /\ UNCHANGED <<scoringVars, cameraVars>>

\* the record is queued whether or not the POST was accepted
HandleSubmit_Always(gps) ==
  /\ clock < MaxItems
  /\ IF gps
     THEN /\ clock' = clock + 1
          /\ queue' = AddToQueue(queue, clock + 1)
     ELSE UNCHANGED <<clock, queue>>
  /\ formAlert' = SubmitAlert(gps, backendUp)
  /\ UNCHANGED <<accepted, failures, net, backendUp, drains, lastResult,
                 hook, ind, isAuthenticated>>
  /\ UNCHANGED <<scoringVars, cameraVars>>

\* HouseholdFormScreen.handleSubmit: the direct POST, and addToQueue when it failed
HandleSubmit(gps) ==
  /\ clock < MaxItems
  /\ IF gps /\ ~backendUp
     THEN /\ clock' = clock + 1
          /\ queue' = AddToQueue(queue, clock + 1)
     ELSE UNCHANGED <<clock, queue>>
  /\ formAlert' = SubmitAlert(gps, backendUp)
  /\ UNCHANGED <<accepted, failures, net, backendUp, drains, lastResult,
                 hook, ind, isAuthenticated>>
  /\ UNCHANGED <<scoringVars, cameraVars>>

\* a consumer of the hook calls the syncQueue it was given
ManualSyncQueue ==
  /\ \E batched \in BOOLEAN : Commit(HookSyncQueue(Mem, batched))
  /\ UNCHANGED <<clock, accepted, failures, net, backendUp, isAuthenticated>>
  /\ UNCHANGED <<formAlert, scoringVars, cameraVars>>

\* syncQueue is called and its processQueue rejects instead of returning
SyncQueueRejected ==
  /\ hook.isConnected /\ hook.isInternetReachable
  /\ Commit(HookSyncCatch([Mem EXCEPT !.hook.syncing = TRUE]))
  /\ UNCHANGED <<clock, accepted, failures, net, backendUp, isAuthenticated>>
  /\ UNCHANGED <<formAlert, scoringVars, cameraVars>>

\* the "Synchroniser" button, disabled while !isConnected || syncing
IndPressSync ==
  /\ ind.isConnected /\ ~ind.syncing
  /\ Commit(IndHandleSync(Mem, ind.isConnected))
  /\ UNCHANGED <<clock, accepted, failures, net, backendUp, isAuthenticated>>
  /\ UNCHANGED <<formAlert, scoringVars, cameraVars>>

\* the remote call of drain d is confirmed by the backend
RemoteSuccess(d) ==
  /\ Active(d)
  /\ backendUp
  /\ accepted' = accepted \cup {drains[d].snap[drains[d].idx]}
  /\ failures' = [failures EXCEPT ![drains[d].snap[drains[d].idx]] = 0]
  /\ \E batched \in BOOLEAN : Commit(DrainStep(Mem, d, TRUE, batched))
  /\ UNCHANGED <<clock, net, backendUp, isAuthenticated>>
  /\ UNCHANGED <<formAlert, scoringVars, cameraVars>>

\* the remote call of drain d fails (network or server error, timeout)
RemoteFailure(d) ==
  /\ Active(d)
  /\ ~backendUp
  /\ LET id == drains[d].snap[drains[d].idx]
     IN /\ failures[id] < MaxAttempts
        /\ failures' = IF id \in QueueIds(queue)
                       THEN [failures EXCEPT ![id] = failures[id] + 1]
                       ELSE failures
  /\ \E batched \in BOOLEAN : Commit(DrainStep(Mem, d, FALSE, batched))
  /\ UNCHANGED <<clock, accepted, net, backendUp, isAuthenticated>>
  /\ UNCHANGED <<formAlert, scoringVars, cameraVars>>

\* the queue is kept in memory only
Restart_Volatile ==
  /\ queue' = <<>>
  /\ drains' = [d \in Slots |-> IdleDrain]
  /\ lastResult' = NoResult
  /\ hook' = HookInit
  /\ ind' = IndInit
  /\ isAuthenticated' = FALSE
  /\ formAlert' = "none"
  /\ cachedWeightingProfile' = Null
  /\ UNCHANGED <<clock, accepted, failures, net, backendUp>>
  /\ UNCHANGED <<input, out, assessments, fetched, today, calls, profileRequested>>
  /\ pass' = IdlePass
  /\ UNCHANGED <<storageUp, docs, dateNow, uploaded, saved>>

\* the process is killed and started again: only the durable store survives
Restart ==
  /\ drains' = [d \in Slots |-> IdleDrain]
  /\ lastResult' = NoResult
  /\ hook' = HookInit
  /\ ind' = IndInit
  /\ isAuthenticated' = FALSE
  /\ formAlert' = "none"
  /\ cachedWeightingProfile' = Null
  /\ UNCHANGED <<queue, clock, accepted, failures, net, backendUp>>
  /\ UNCHANGED <<input, out, assessments, fetched, today, calls, profileRequested>>
  /\ pass' = IdlePass
  /\ UNCHANGED <<storageUp, docs, dateNow, uploaded, saved>>

\* ------------------------------------------------- scoring: inputs
Grid == {k * (100 \div Steps) : k \in 0..Steps}

BirthDates ==
  { NoDate,
    [year |-> 1960, month |-> 6, day |-> 15],
    [year |-> 1960, month |-> 6, day |-> 16],
    [year |-> 1990, month |-> 1, day |-> 1] }

\* personData and householdData as the five-dimension service reads them
Persons5 ==
  { [occupationStatus |-> occ, hasChronicIllness |-> ill, hasDisability |-> FALSE,
     educationLevel |-> edu, isIlliterate |-> (edu = "aucun"), birthDate |-> b] :
      occ \in {"", "Chomeur"}, ill \in BOOLEAN, edu \in {"", "aucun"},
      b \in BirthDates }

Households5 ==
  { [monthlyIncome |-> inc, householdSize |-> size,
     dependents |-> (IF size = 1 THEN 0 ELSE 5), hasSavings |-> sav,
     housingType |-> ht, hasElectricity |-> util, hasRunningWater |-> util,
     numberOfRooms |-> 0, hasToilet |-> util, hasChronicIllness |-> ill,
     hasDisability |-> FALSE, hasHealthInsurance |-> sav,
     hasMalnutrition |-> FALSE, healthCenterDistance |-> 0,
     childrenOutOfSchool |-> kids, hasUnpaidSchoolFees |-> (kids > 0),
     isSociallyIsolated |-> iso, isSingleParent |-> iso,
     hasFamilySupport |-> sup] :
      inc \in {0, 80000, 2000000}, size \in {1, 6}, sav \in BOOLEAN,
      ht \in {"", "Precaire"}, util \in BOOLEAN, ill \in BOOLEAN,
      kids \in {0, 2}, iso \in BOOLEAN, sup \in BOOLEAN }

\* personData and householdData as the four-dimension service reads them
Persons4 ==
  { [employment_status |-> emp, education_level |-> edu, gender |-> g,
     marital_status |-> ms, disability_status |-> dis, age |-> age] :
      emp \in {"", "unemployed"}, edu \in {"", "NONE"}, g \in {"M", "F"},
      ms \in {"", "WIDOWED"}, dis \in {"", "YES"}, age \in {0, 30, 70} }

Households4 ==
  { [household_size |-> size, has_disabled_members |-> dm,
     has_elderly_members |-> v, has_children_under_5 |-> v,
     has_pregnant_women |-> v, dependency_ratio |-> dr,
     total_monthly_income |-> inc, housing_type |-> ht] :
      size \in {0, 6, 10}, dm \in BOOLEAN, v \in BOOLEAN, dr \in {0, 20},
      inc \in {0, 80000}, ht \in {"", "PRECARIOUS"} }
  \cup {Null}

Profile(h, e, s, he) ==
  [household_composition_weight |-> h, economic_vulnerability_weight |-> e,
   social_vulnerability_weight |-> s, health_vulnerability_weight |-> he]

WeightSum(weights) ==
  weights.household_composition_weight + weights.economic_vulnerability_weight
    + weights.social_vulnerability_weight + weights.health_vulnerability_weight

\* what the backend may be configured to answer: equal weights, and a
\* profile whose weights add up to 120 %
RemoteProfiles == {Profile(250, 250, 250, 250), Profile(400, 400, 200, 200)}

ProfileResponses ==
  {ProfileData(p) : p \in RemoteProfiles} \cup {ProfileEmpty, ProfileError}

\* the profiles on the grid whose weights add up to 100 %
GridProfiles ==
  { Profile(h, e, s, 1000 - h - e - s) :
      h \in {10 * g : g \in Grid}, e \in {10 * g : g \in Grid},
      s \in {10 * g : g \in Grid} }

\* the weight profiles of the grid, and those the backend may answer
ProbeProfiles ==
  {g \in GridProfiles : g.health_vulnerability_weight >= 0} \cup RemoteProfiles

\* the household of the end-to-end example: six members, 80000 FCFA a
\* month, no electricity, no running water, a chronic illness, every other
\* field not set; as the five-dimension service reads it
ExamplePerson5 ==
  [occupationStatus |-> "", hasChronicIllness |-> TRUE, hasDisability |-> FALSE,
   educationLevel |-> "", isIlliterate |-> FALSE, birthDate |-> NoDate]

ExampleHousehold5 ==
  [monthlyIncome |-> 80000, householdSize |-> 6, dependents |-> 0,
   hasSavings |-> FALSE, housingType |-> "", hasElectricity |-> FALSE,
   hasRunningWater |-> FALSE, numberOfRooms |-> 0, hasToilet |-> FALSE,
   hasChronicIllness |-> TRUE, hasDisability |-> FALSE,
   hasHealthInsurance |-> FALSE, hasMalnutrition |-> FALSE,
   healthCenterDistance |-> 0, childrenOutOfSchool |-> 0,
   hasUnpaidSchoolFees |-> FALSE, isSociallyIsolated |-> FALSE,
   isSingleParent |-> FALSE, hasFamilySupport |-> FALSE]

\* and as the four-dimension service reads it (it has no field for
\* electricity, water or illness)
ExamplePerson4 ==
  [employment_status |-> "", education_level |-> "", gender |-> "",
   marital_status |-> "", disability_status |-> "", age |-> 0]

ExampleHousehold4 ==
  [household_size |-> 6, has_disabled_members |-> FALSE,
   has_elderly_members |-> FALSE, has_children_under_5 |-> FALSE,
   has_pregnant_women |-> FALSE, dependency_ratio |-> 0,
   total_monthly_income |-> 80000, housing_type |-> ""]

\* the risk levels, and the factor lists identifyRiskFactors can give on
\* the factors the recommendations look at and one they do not
RiskLevels == {"CRITICAL", "HIGH", "MODERATE", "LOW"}

FactorLists ==
  {   If("extreme_poverty" \in S, "extreme_poverty")
   \o If("unemployment" \in S, "unemployment")
   \o If("chronic_illness" \in S, "chronic_illness")
   \o If("no_education" \in S, "no_education")
   \o If("children_out_of_school" \in S, "children_out_of_school") :
      S \in SUBSET {"extreme_poverty", "unemployment", "chronic_illness",
                    "no_education", "children_out_of_school"} }

\* ------------------------------------------------ scoring: actions
\* the record of the last two local computations
Record(history, call) ==
  IF Len(history) < 2 THEN Append(history, call) ELSE <<history[2], call>>

\* local scoring is called on arguments of any of the shapes above
LocalInit ==
  /\ SyncInit
  /\ ScoringInit
  /\ CameraInit
  /\ \/ \E p \in Persons5 \cup {Null}, h \in Households5 :
          input = [kind |-> "five", person |-> p, household |-> h]
     \/ \E p \in Persons4 \cup {Null}, h \in Households4 :
          input = [kind |-> "four", person |-> p, household |-> h]
     \/ \E s \in 0..1000 :
          input = [kind |-> "score", score |-> s]
     \/ \E d \in [DOMAIN WEIGHTS -> Grid] :
          input = [kind |-> "dims5", dimensions |-> d]
     \/ \E d \in [1..4 -> Grid], w \in ProbeProfiles :
          input = [kind |-> "dims4", scores |-> d, weights |-> w]
     \/ \E l \in RiskLevels, f \in FactorLists :
          input = [kind |-> "factors", level |-> l, factors |-> f]
     \/ input = [kind |-> "five", person |-> ExamplePerson5,
                 household |-> ExampleHousehold5]
     \/ input = [kind |-> "four", person |-> ExamplePerson4,
                 household |-> ExampleHousehold4]

\* five-dimension service: calculateVulnerabilityScore(personData, householdData)
CalculateVulnerabilityScore ==
  /\ input.kind = "five"
  /\ out' = calculateVulnerabilityScore(input.person, input.household)
  /\ calls' = Record(calls, [profile |-> WEIGHTS, result |-> out'])
  /\ UNCHANGED <<input, cachedWeightingProfile, assessments, fetched, today,
                 profileRequested>>
  /\ UNCHANGED <<syncVars, cameraVars>>

\* four-dimension service: calculateScoreLocally(personData, householdData),
\* the backend answering response if the profile is requested
CalculateScoreLocally(response) ==
  /\ input.kind = "four"
  /\ LET r == calculateScoreLocally(input.person, input.household,
                                    cachedWeightingProfile, response)
     IN /\ out' = r.result
        /\ cachedWeightingProfile' = r.cache
        /\ profileRequested' = r.requested
        /\ calls' = Record(calls, [profile |-> r.profile, result |-> r.result])
  /\ UNCHANGED <<input, assessments, fetched, today>>
  /\ UNCHANGED <<syncVars, cameraVars>>

\* determineRiskLevel and _determineRiskLevel on a score given in tenths
DetermineRiskLevel ==
  /\ input.kind = "score"
  /\ out' = [kind |-> "levels",
             five |-> determineRiskLevel(10 * input.score),
             four |-> _determineRiskLevel(100 * input.score)]
  /\ UNCHANGED <<input, cachedWeightingProfile, assessments, fetched, today,
                 calls, profileRequested>>
  /\ UNCHANGED <<syncVars, cameraVars>>

\* calculateWeightedScore on given dimension scores
CalculateWeightedScore ==
  /\ input.kind = "dims5"
  /\ out' = [kind |-> "global", score |-> calculateWeightedScore(input.dimensions)]
  /\ UNCHANGED <<input, cachedWeightingProfile, assessments, fetched, today,
                 calls, profileRequested>>
  /\ UNCHANGED <<syncVars, cameraVars>>

\* the weighted sum of calculateScoreLocally on given scores and weights
TotalScore ==
  /\ input.kind = "dims4"
  /\ out' = [kind |-> "global",
             score |-> totalScore(input.scores[1], input.scores[2],
                                  input.scores[3], input.scores[4], input.weights)]
  /\ UNCHANGED <<input, cachedWeightingProfile, assessments, fetched, today,
                 calls, profileRequested>>
  /\ UNCHANGED <<syncVars, cameraVars>>

\* generateRecommendations on a given level and factor list
GenerateRecommendations ==
  /\ input.kind = "factors"
  /\ out' = [kind |-> "recommendations",
             list |-> generateRecommendations(input.level, input.factors)]
  /\ UNCHANGED <<input, cachedWeightingProfile, assessments, fetched, today,
                 calls, profileRequested>>
  /\ UNCHANGED <<syncVars, cameraVars>>

\* _generateRecommendations on given scores and the total the weights give
GenerateRecommendationsByScore ==
  /\ input.kind = "dims4"
  /\ out' = [kind |-> "recommendations",
             list |-> _generateRecommendations(
                        totalScore(input.scores[1], input.scores[2],
                                   input.scores[3], input.scores[4], input.weights),
                        input.scores[1], input.scores[2],
                        input.scores[3], input.scores[4])]
  /\ UNCHANGED <<input, cachedWeightingProfile, assessments, fetched, today,
                 calls, profileRequested>>
  /\ UNCHANGED <<syncVars, cameraVars>>

NextLocal ==
  \/ CalculateVulnerabilityScore
  \/ \E response \in ProfileResponses : CalculateScoreLocally(response)
  \/ DetermineRiskLevel
  \/ CalculateWeightedScore
  \/ TotalScore
  \/ GenerateRecommendations
  \/ GenerateRecommendationsByScore

SpecLocal == LocalInit /\ [][NextLocal]_vars

\* midnight passes between two computations
DayPasses ==
  /\ today = Day1
  /\ today' = Day2
  /\ UNCHANGED <<input, out, cachedWeightingProfile, assessments, fetched,
                 calls, profileRequested>>
  /\ UNCHANGED <<syncVars, cameraVars>>

\* local scoring called again and again on the same person and household
TwiceInit == LocalInit /\ input.kind \in {"five", "four"}

NextTwice ==
  \/ CalculateVulnerabilityScore
  \/ \E response \in ProfileResponses : CalculateScoreLocally(response)
  \/ DayPasses

SpecTwice == TwiceInit /\ [][NextTwice]_vars

\* getWeightingProfile(), the backend answering response if asked
GetWeightingProfile(response) ==
  /\ LET got == getWeightingProfile(cachedWeightingProfile, response)
     IN /\ out' = got.profile
        /\ cachedWeightingProfile' = got.cache
        /\ profileRequested' = got.requested
  /\ UNCHANGED <<input, assessments, fetched, today, calls>>
  /\ UNCHANGED <<syncVars, cameraVars>>

Version(assessment) == IF assessment = Null THEN 0 ELSE assessment.version

\* calculateVulnerabilityScore(personId): the backend computes a new
\* assessment of the person, answers with an empty body, or fails
CalculateById(personId, answer) ==
  /\ answer = "data" => Version(fetched[personId]) < MaxVersions
  /\ LET response ==
           CASE answer = "data" ->
                  CalcData([person_id |-> personId,
                            version |-> Version(fetched[personId]) + 1])
             [] answer = "empty" -> CalcEmpty
             [] OTHER -> CalcError
         r == calculateVulnerabilityScoreById(assessments, personId, response)
     IN /\ out' = r.result
        /\ assessments' = r.store
        /\ fetched' = IF answer = "data"
                      THEN [fetched EXCEPT ![personId] = response.data]
                      ELSE fetched
  /\ UNCHANGED <<input, cachedWeightingProfile, today, calls, profileRequested>>
  /\ UNCHANGED <<syncVars, cameraVars>>

\* the scoring service against the backend, across restarts
NextRemote ==
  \/ \E response \in ProfileResponses : GetWeightingProfile(response)
  \/ \E p \in Persons : \E answer \in {"data", "empty", "error"} : CalculateById(p, answer)
  \/ Restart

SpecRemote == Init /\ [][NextRemote]_vars

\* ------------------------------------------------ storage: actions
\* the texts callers store
Texts == {JSONstringify([person_id |-> p, version |-> 1]) : p \in Persons}

\* AsyncStorage stops answering, or answers again
StorageFlips ==
  /\ storageUp' = ~storageUp
  /\ UNCHANGED <<docs, dateNow, pass, uploaded, saved>>
  /\ UNCHANGED <<syncVars, scoringVars>>

\* a StorageService call on the store: what it returns and what it leaves
StorageCall(r) ==
  /\ out' = r.result
  /\ assessments' = r.store
  /\ UNCHANGED <<input, cachedWeightingProfile, fetched, today, calls,
                 profileRequested>>
  /\ UNCHANGED <<syncVars, cameraVars>>

StorageSetItem(key, value) == StorageCall(setItem(assessments, storageUp, key, value))

StorageGetItem(key) == StorageCall(getItem(assessments, storageUp, key))

StorageRemoveItem(key) == StorageCall(removeItem(assessments, storageUp, key))

StorageGetAllKeys == StorageCall(getAllKeys(assessments, storageUp))

StorageClear == StorageCall(clear(assessments, storageUp))

\* the assessment cache is read for a person
GetCachedAssessment(personId) ==
  StorageCall([result |-> Returned(_getCachedAssessment(assessments, personId)),
               store |-> assessments])

\* useOffline.loadPendingCount: getPendingCount reads the durable queue;
\* when the store does not answer it either counts nothing or rejects, and
\* a rejection is caught by the loader, which leaves the count as it was
LoadPendingCount(rejects) ==
  /\ hook' = IF storageUp THEN [hook EXCEPT !.pendingCount = GetPendingCount(queue)]
             ELSE IF rejects THEN hook
             ELSE [hook EXCEPT !.pendingCount = 0]
  /\ out' = Returned(Undefined)
  /\ UNCHANGED <<queue, clock, accepted, failures, net, backendUp, drains,
                 lastResult, ind, isAuthenticated, formAlert>>
  /\ UNCHANGED <<input, cachedWeightingProfile, assessments, fetched, today,
                 calls, profileRequested>>
  /\ UNCHANGED cameraVars

NextStore ==
  \/ StorageFlips
  \/ \E key \in AssessmentKeys, value \in Texts : StorageSetItem(key, value)
  \/ \E key \in AssessmentKeys : StorageGetItem(key)
  \/ \E key \in AssessmentKeys : StorageRemoveItem(key)
  \/ StorageGetAllKeys
  \/ StorageClear
  \/ \E p \in Persons : GetCachedAssessment(p)
  \/ \E rejects \in BOOLEAN : LoadPendingCount(rejects)

SpecStore == Init /\ [][NextStore]_vars

\* ------------------------------------------------ camera: actions
\* a millisecond passes
Tick ==
  /\ dateNow < MaxTime
  /\ dateNow' = dateNow + 1
  /\ UNCHANGED <<storageUp, docs, pass, uploaded, saved>>
  /\ UNCHANGED <<syncVars, scoringVars>>

\* a screen uploads an image it has just captured
CaptureUpload(image, answer) ==
  /\ image \notin uploaded \cup saved
  /\ LET r == uploadDocument(docs, dateNow, image, 1, answer)
     IN /\ docs' = r.store
        /\ out' = r.result
        /\ uploaded' = IF r.result.success THEN uploaded \cup {image} ELSE uploaded
        /\ saved' = IF answer = "error" THEN saved \cup {image} ELSE saved
  /\ UNCHANGED <<storageUp, dateNow, pass>>
  /\ UNCHANGED <<input, cachedWeightingProfile, assessments, fetched, today,
                 calls, profileRequested>>
  /\ UNCHANGED syncVars

\* syncPendingDocuments up to its first upload
SyncPendingDocuments ==
  /\ ~pass.active
  /\ LET pendingDocs == getPendingDocuments(docs)
     IN IF Len(pendingDocs) = 0
        THEN /\ out' = [success |-> TRUE, synced |-> 0,
                        message |-> "Aucun document en attente"]
             /\ pass' = pass
        ELSE /\ pass' = [active |-> TRUE, pendingDocs |-> pendingDocs, idx |-> 1,
                         synced |-> 0, failed |-> 0]
             /\ out' = out
  /\ UNCHANGED <<storageUp, docs, dateNow, uploaded, saved>>
  /\ UNCHANGED <<input, cachedWeightingProfile, assessments, fetched, today,
                 calls, profileRequested>>
  /\ UNCHANGED syncVars

\* the upload of the document the pass has got to completes, the backend
\* answering answer; after the last one the pass returns its counts
PassUpload(answer) ==
  /\ pass.active
  /\ LET doc == pass.pendingDocs[pass.idx]
         r == uploadDocument(docs, dateNow, doc.data.image, doc.data.personId, answer)
         synced == IF r.result.success THEN pass.synced + 1 ELSE pass.synced
         failed == IF r.result.success THEN pass.failed ELSE pass.failed + 1
     IN /\ docs' = IF r.result.success
                   THEN removeItem(r.store, storageUp, doc.key).store
                   ELSE r.store
        /\ uploaded' = IF r.result.success
                       THEN uploaded \cup {doc.data.image} ELSE uploaded
        /\ saved' = IF answer = "error" THEN saved \cup {doc.data.image} ELSE saved
        /\ IF pass.idx < Len(pass.pendingDocs)
           THEN /\ pass' = [pass EXCEPT !.idx = pass.idx + 1,
                                        !.synced = synced, !.failed = failed]
                /\ out' = out
           ELSE /\ pass' = IdlePass
                /\ out' = [success |-> TRUE, synced |-> synced, failed |-> failed,
                           total |-> Len(pass.pendingDocs)]
  /\ UNCHANGED <<storageUp, dateNow>>
  /\ UNCHANGED <<input, cachedWeightingProfile, assessments, fetched, today,
                 calls, profileRequested>>
  /\ UNCHANGED syncVars

NextCamera ==
  \/ Tick
  \/ \E image \in Images, answer \in UploadAnswers : CaptureUpload(image, answer)
  \/ SyncPendingDocuments
  \/ \E answer \in UploadAnswers : PassUpload(answer)

SpecCamera == Init /\ [][NextCamera]_vars

\* the app with its root component only: the App listener drives the drains
NextQueue ==
  \/ \E s \in NetStates : NetEvent(s, {})
  \/ ToggleBackend
  \/ Login
  \/ \E gps \in BOOLEAN : HandleSubmit(gps)
  \/ \E d \in Slots : RemoteSuccess(d)
  \/ \E d \in Slots : RemoteFailure(d)
  \/ Restart

Spec == Init /\ [][NextQueue]_vars

\* a screen using the useOffline hook is mounted
NextHook ==
  \/ \E s \in NetStates : NetEvent(s, {"hook"})
  \/ ToggleBackend
  \/ HookRefresh
  \/ HookAddToQueue
  \/ ManualSyncQueue
  \/ \E d \in Slots : RemoteSuccess(d)
  \/ \E d \in Slots : RemoteFailure(d)

SpecHook == Init /\ [][NextHook]_vars

\* the hook is mounted and processQueue may reject
NextCatch ==
  \/ \E s \in NetStates : NetEvent(s, {"hook"})
  \/ ToggleBackend
  \/ HookRefresh
  \/ HookAddToQueue
  \/ ManualSyncQueue
  \/ SyncQueueRejected
  \/ \E d \in Slots : RemoteSuccess(d)
  \/ \E d \in Slots : RemoteFailure(d)

SpecCatch == Init /\ [][NextCatch]_vars

\* the OfflineIndicator component is mounted
NextInd ==
  \/ \E s \in NetStates : NetEvent(s, {"ind"})
  \/ ToggleBackend
  \/ \E gps \in BOOLEAN : HandleSubmit(gps)
  \/ IndRefresh
  \/ IndPressSync
  \/ \E d \in Slots : RemoteSuccess(d)
  \/ \E d \in Slots : RemoteFailure(d)

SpecInd == Init /\ [][NextInd]_vars

\* the hook with auto-sync, nobody calling syncQueue by hand; the interval
\* timer keeps firing and every remote call completes (or times out)
NextAuto ==
  \/ \E s \in NetStates : NetEvent(s, {"hook"})
  \/ ToggleBackend
  \/ Login
  \/ HookRefresh
  \/ HookAddToQueue
  \/ \E d \in Slots : RemoteSuccess(d)
  \/ \E d \in Slots : RemoteFailure(d)

SpecAuto ==
  /\ Init
  /\ [][NextAuto]_vars
  /\ WF_vars(HookRefresh)
  /\ \A d \in Slots : WF_vars(RemoteSuccess(d)) /\ WF_vars(RemoteFailure(d))

TypeOK ==
  /\ clock \in 0..MaxItems
  /\ Len(queue) <= MaxItems
  /\ \A i \in 1..Len(queue) : queue[i].status \in {"PENDING", "IN_FLIGHT", "FAILED"}
  /\ net \in NetStates

\* ------------------------------------------------------------ helpers
ActiveDrains == {d \in Slots : Active(d)}

\* the item whose remote call drain d is waiting for
InFlightId(d) == drains[d].snap[drains[d].idx]

ItemOf(q, id) == q[CHOOSE i \in 1..Len(q) : q[i].id = id]

Range(f) == {f[i] : i \in DOMAIN f}

DrainStarts(d) == ~Active(d) /\ drains'[d].caller # "none"

\* ------------------------------------------------------------- claims

C2_RemovedOnlyAfterSuccess ==
  \A id \in 1..clock : id \in QueueIds(queue) \/ id \in accepted

\* an item was delivered and removed while another one, whose attempt
\* failed, is still queued, with a second drain in flight
C2_Witness ==
  /\ accepted # {}
  /\ \E i \in 1..Len(queue) : queue[i].status = "FAILED" /\ queue[i].attempts > 0
  /\ Cardinality(ActiveDrains) >= 2

\* C3: a drain submits its items in ascending createdAt order, and when
\* every one of its remote calls succeeded none of its items is left in
\* the queue when it returns.
C3_Ascending ==
  \A d \in ActiveDrains :
    \A i, j \in 1..Len(drains[d].snap) :
      i < j => drains[d].snap[i] < drains[d].snap[j]

C3_DoneWhenAllSucceed ==
  \A d \in Slots :
    (RemoteSuccess(d) /\ drains[d].idx = Len(drains[d].snap) /\ drains[d].failed = 0)
      => /\ \A i \in 1..Len(drains[d].snap) : drains[d].snap[i] \notin QueueIds(queue')
         /\ lastResult'.synced = Len(drains[d].snap)
         /\ lastResult'.failed = 0

C3_Fifo == []C3_Ascending /\ [][C3_DoneWhenAllSucceed]_vars

\* A, B, C were enqueued and drained in one pass: the queue is empty
C3_Witness ==
  /\ lastResult.total = 3 /\ lastResult.synced = 3
  /\ clock = 3 /\ queue = <<>>

\* C4: when the remote call of an item fails, the item stays in the queue
\* with status FAILED and attempts incremented by exactly 1, the drain goes
\* on with the next item, and the summary it returns has
\* synced + failed = total = n.
C4_FailureStep(d) ==
  LET id == InFlightId(d)
      dr == drains[d]
  IN /\ id \in QueueIds(queue)
     /\ id \in QueueIds(queue')
     /\ ItemOf(queue', id).status = "FAILED"
     /\ ItemOf(queue', id).attempts = ItemOf(queue, id).attempts + 1
     /\ IF dr.idx < Len(dr.snap)
        THEN drains'[d].idx = dr.idx + 1 /\ drains'[d].snap = dr.snap
        ELSE /\ lastResult'.total = Len(dr.snap)
             /\ lastResult'.synced + lastResult'.failed = lastResult'.total

NetOnline == net.isConnected /\ net.isInternetReachable = "true"

C5_EventualDelivery ==
  <>[](NetOnline /\ backendUp) => <>[](queue = <<>>)

\* C6: a process restart leaves the queue contents, and so pendingCount(),
\* unchanged: the queue is reloaded from the durable store only.
C6_RestartStep ==
  Restart => /\ queue' = queue
             /\ GetPendingCount(queue') = GetPendingCount(queue)

C7_AttemptsCountFailures ==
  \A i \in 1..Len(queue) :
    /\ queue[i].attempts = failures[queue[i].id]
    /\ queue[i].status = "FAILED" => queue[i].id \in Range(Snapshot(queue))

C7_DrainTakesFailed ==
  \A d \in Slots :
    DrainStarts(d) =>
      \A i \in 1..Len(queue) :
        queue[i].status = "FAILED" => queue[i].id \in Range(drains'[d].snap)

C7_RetryForever == []C7_AttemptsCountFailures /\ [][C7_DrainTakesFailed]_vars

\* an item that already failed twice is being submitted once more
C7_Witness ==
  \E d \in ActiveDrains :
    /\ InFlightId(d) \in QueueIds(queue)
    /\ ItemOf(queue, InFlightId(d)).attempts >= 2

\* C8: enqueue appends exactly one PENDING item, increases pendingCount()
\* by exactly one and leaves the items already queued unchanged.
C8_EnqueueStep ==
  clock' = clock + 1 =>
    /\ Len(queue') = Len(queue) + 1
    /\ queue'[Len(queue')].status = "PENDING"
    /\ queue'[Len(queue')].attempts = 0
    /\ \A i \in 1..Len(queue) : queue'[i] = queue[i]
    /\ GetPendingCount(queue') = GetPendingCount(queue) + 1

C8_EnqueueFrame == [][C8_EnqueueStep]_vars

\* a PENDING item was appended behind an item that had failed and one in flight
C8_Witness ==
  /\ Len(queue) = 3
  /\ queue[1].status = "FAILED" /\ queue[1].attempts > 0
  /\ queue[2].status = "IN_FLIGHT"
  /\ queue[3].status = "PENDING" /\ queue[3].attempts = 0

\* C9: after every completed addToQueue and every completed sync pass the
\* displayed pendingCount equals the number of PENDING or FAILED items in
\* the durable queue.
HookPassCompletes ==
  \/ HookAddToQueue
  \/ \E d \in Slots :
       /\ drains[d].caller = "hook" /\ drains[d].idx = Len(drains[d].snap)
       /\ (RemoteSuccess(d) \/ RemoteFailure(d))

IndPassCompletes ==
  \/ IndPressSync /\ drains' = drains
  \/ \E d \in Slots :
       /\ drains[d].caller = "indicator" /\ drains[d].idx = Len(drains[d].snap)
       /\ (RemoteSuccess(d) \/ RemoteFailure(d))

C9_DisplayedCount ==
  [][/\ HookPassCompletes => hook'.pendingCount = GetPendingCount(queue')
     /\ IndPassCompletes => ind'.pendingCount = GetPendingCount(queue')]_vars

\* C10: no connectivity listener starts a sync on a NetInfo state with
\* isConnected true and isInternetReachable false.
C10_OnlineIsAnd ==
  [][(/\ \E s \in NetStates : \E m \in SUBSET {"hook", "ind"} : NetEvent(s, m)
      /\ net'.isConnected
      /\ net'.isInternetReachable = "false")
       => \A d \in Slots : ~DrainStarts(d)]_vars

\* C11: a drain never raises to its caller: the failure of an item's remote
\* call is counted in the summary the drain returns, an exception of
\* processQueue comes out of syncQueue as the value {success: false, error},
\* and syncing is never left set once no call of the hook is outstanding.
C11_NoRaise == "raised" \notin DOMAIN lastResult

C11_FlagReset == hook.syncing => \E d \in Slots : drains[d].caller = "hook"

C11_FailureCaptured ==
  \A d \in Slots :
    RemoteFailure(d) =>
      IF drains[d].idx < Len(drains[d].snap)
      THEN drains'[d].failed = drains[d].failed + 1
      ELSE /\ lastResult'.caller = drains[d].caller
           /\ lastResult'.failed = drains[d].failed + 1

C11_Caught ==
  SyncQueueRejected =>
    /\ lastResult' = [caller |-> "hook", success |-> FALSE, error |-> "message"]
    /\ ~hook'.syncing

C11_NeverRaises ==
  /\ [](C11_NoRaise /\ C11_FlagReset)
  /\ [][C11_FailureCaptured /\ C11_Caught]_vars

\* a rejected processQueue was turned into a value while another drain,
\* one of whose items had failed, was still going on
C11_Witness ==
  /\ "error" \in DOMAIN lastResult
  /\ ~hook.syncing
  /\ \E d \in Slots : drains[d].caller = "hook" /\ drains[d].failed > 0

\* C12: handleSubmit loses no record: a submission that passes the GPS check
\* is either accepted by the direct POST, and then not enqueued, or appended
\* to the queue as exactly one item.
C12_SubmitStep ==
  \A gps \in BOOLEAN :
    (HandleSubmit(gps) /\ gps) =>
      IF backendUp
      THEN queue' = queue /\ formAlert' = "Succes"
      ELSE /\ Len(queue') = Len(queue) + 1
           /\ SubSeq(queue', 1, Len(queue)) = queue
           /\ queue'[Len(queue')] = NewItem(clock + 1)
           /\ clock + 1 \notin QueueIds(queue)
           /\ formAlert' = "Sauvegarde Offline"

CanonicalLevel(score) ==
  IF score >= 800 THEN "CRITICAL"
  ELSE IF score >= 600 THEN "HIGH"
  ELSE IF score >= 400 THEN "MODERATE"
  ELSE "LOW"

\* C13: the risk level is the step function CRITICAL >= 80, HIGH >= 60,
\* MODERATE >= 40, LOW otherwise of the score, in determineRiskLevel as in
\* _determineRiskLevel (79.9 is HIGH, 80.0 is CRITICAL).
C13_StepFunction ==
  out.kind = "levels" =>
    /\ out.five = CanonicalLevel(input.score)
    /\ out.four = CanonicalLevel(input.score)

WellFormed == input.kind \in {"five", "four"} /\ input.person # Null

\* C14: local scoring throws only on malformed input: for a well-formed
\* person and household, persons of 65 and over included, both local
\* computations return an assessment.
C14_RaisesOnlyOnMalformed ==
  (WellFormed /\ out # Null) => out.kind = "assessment"

ValidProfile(weights) ==
  /\ weights.household_composition_weight >= 0
  /\ weights.economic_vulnerability_weight >= 0
  /\ weights.social_vulnerability_weight >= 0
  /\ weights.health_vulnerability_weight >= 0
  /\ WeightSum(weights) = 1000

\* C16: with weights that sum to 100 % and dimension scores in [0,100] the
\* weighted global score lies in [0,100].
C16_GlobalInRange ==
  /\ (input.kind = "dims5" /\ out.kind = "global")
       => out.score >= 0 /\ out.score <= 100 * 100
  /\ (input.kind = "dims4" /\ out.kind = "global" /\ ValidProfile(input.weights))
       => out.score >= 0 /\ out.score <= 1000 * 100

\* the whole weight on one dimension whose score is 100, and uneven
\* weights on scores that are all 100
C16_Witness ==
  /\ input.kind = "dims4" /\ out.kind = "global"
  /\ ValidProfile(input.weights)
  /\ input.weights.social_vulnerability_weight = 500
  /\ input.weights.health_vulnerability_weight = 0
  /\ \A i \in 1..4 : input.scores[i] = 100
  /\ out.score = 1000 * 100

InRange(score) == score >= 0 /\ score <= 100

\* C18: for every input record each dimension score, of the five of one
\* service and of the four of the other, is between 0 and 100.
C18_DimensionsInRange ==
  /\ (input.kind = "five" /\ input.person # Null /\ out # Null)
       => /\ out.kind = "assessment"
          /\ \A d \in DOMAIN WEIGHTS : InRange(out.dimensions[d])
  /\ (input.kind = "four" /\ input.person # Null /\ out # Null)
       => /\ InRange(_calculateHouseholdCompositionScore(input.household))
          /\ InRange(_calculateEconomicVulnerabilityScore(input.person, input.household))
          /\ InRange(_calculateSocialVulnerabilityScore(input.person))
          /\ InRange(_calculateHealthVulnerabilityScore(input.person, input.household))

\* C19: a successful remote calculation for p stores its result under p in
\* place of the earlier one; when the request fails the call returns the
\* assessment last fetched for p, marked fromCache, never that of another
\* person, and reports failure when none was fetched for p.
C19_CacheHoldsLatest ==
  \A p \in Persons : _getCachedAssessment(assessments, p) = fetched[p]

C19_CalculateStep ==
  \A p \in Persons :
    /\ CalculateById(p, "data") =>
         /\ fetched'[p] # fetched[p]
         /\ out' = [success |-> TRUE, assessment |-> fetched'[p]]
         /\ _getCachedAssessment(assessments', p) = fetched'[p]
         /\ \A q \in Persons \ {p} :
              _getCachedAssessment(assessments', q) = _getCachedAssessment(assessments, q)
    /\ CalculateById(p, "error") =>
         IF fetched[p] # Null
         THEN out' = [success |-> TRUE, assessment |-> fetched[p], fromCache |-> TRUE]
         ELSE out'.success = FALSE

C19_CacheFallback == []C19_CacheHoldsLatest /\ [][C19_CalculateStep]_vars

\* the second assessment of person 1 came back from the cache while one
\* of person 2, fetched later, is cached as well
C19_Witness ==
  /\ out = [success |-> TRUE, assessment |-> [person_id |-> 1, version |-> 2],
            fromCache |-> TRUE]
  /\ fetched[2] # Null

\* C20: getWeightingProfile never fails: it returns the cached profile if
\* there is one, else the fetched one, else the default, and never throws
\* or returns nothing.
C20_ProfileStep ==
  \A response \in ProfileResponses :
    GetWeightingProfile(response) =>
      /\ DOMAIN out' = DOMAIN DEFAULT_WEIGHTING_PROFILE
      /\ out' = IF cachedWeightingProfile # Null THEN cachedWeightingProfile
                ELSE IF response.kind = "data" THEN response.data
                ELSE DEFAULT_WEIGHTING_PROFILE

C20_NeverFails == [][C20_ProfileStep]_vars

\* the default came back after a failed or empty fetch, nothing cached
C20_Witness ==
  /\ out = DEFAULT_WEIGHTING_PROFILE
  /\ cachedWeightingProfile = Null

\* C21: two local computations on the same person and household with the
\* same weighting profile return the same result (calculatedAt, which the
\* results here do not hold, apart).
C21_Idempotent ==
  (Len(calls) = 2 /\ calls[1].profile = calls[2].profile)
    => calls[1].result = calls[2].result

NoDuplicates(list) ==
  \A i, j \in 1..Len(list) : i # j => list[i] # list[j]

\* C22: the recommendation list never holds the same recommendation twice,
\* for every risk level and every combination of factors or of scores.
C22_NoDuplicateRecommendations ==
  /\ out.kind = "recommendations" => NoDuplicates(out.list)
  /\ out.kind = "assessment" => NoDuplicates(out.recommendations)

\* the longest list of the five-dimension service: HIGH with every factor
C22_Witness ==
  /\ input.kind = "factors" /\ input.level = "HIGH"
  /\ out.kind = "recommendations"
  /\ Len(out.list) = 7

\* C23: for the household of the example (size 6, income 80000, no
\* electricity, no running water, one chronic illness, nothing else set)
\* local scoring with the default weights gives the level HIGH or CRITICAL.
C23_ExampleHighOrCritical ==
  /\ (input.kind = "five" /\ input.household = ExampleHousehold5
        /\ input.person = ExamplePerson5 /\ out # Null)
       => /\ out.kind = "assessment"
          /\ out.level \in {"HIGH", "CRITICAL"}
  /\ (input.kind = "four" /\ input.household = ExampleHousehold4
        /\ input.person = ExamplePerson4 /\ out # Null
        /\ calls[Len(calls)].profile = DEFAULT_WEIGHTING_PROFILE)
       => /\ out.kind = "assessment"
          /\ out.risk_level \in {"HIGH", "CRITICAL"}

\* C24: a failure of the underlying store is returned, not thrown: every
\* StorageService operation then returns false, null or an empty list and
\* leaves the store as it was, and the assessment cache and the
\* pending-count loader return as well.
C24_NoThrow == out.kind # "thrown"

C24_StorageStep ==
  ~storageUp =>
    /\ assessments' = assessments
    /\ \A key \in AssessmentKeys :
         /\ \A value \in Texts : StorageSetItem(key, value) => out' = Returned(Bool(FALSE))
         /\ StorageGetItem(key) => out' = Returned(Null)
         /\ StorageRemoveItem(key) => out' = Returned(Bool(FALSE))
    /\ StorageGetAllKeys => out' = Returned(Keys({}))
    /\ StorageClear => out' = Returned(Bool(FALSE))
    /\ \A p \in Persons : GetCachedAssessment(p) => out' = Returned(Null)
    /\ \A rejects \in BOOLEAN : LoadPendingCount(rejects) => out'.kind = "returned"

C24_FailureReturned == []C24_NoThrow /\ [][C24_StorageStep]_vars

\* a write was refused while the store, which holds entries, did not answer
C24_Witness ==
  /\ ~storageUp
  /\ out = Returned(Bool(FALSE))
  /\ \E key \in AssessmentKeys : assessments[key] # Null

\* C25: when the connection comes back while autoSync is on and items are
\* pending, OfflineIndicator starts a synchronization by itself.
C25_RestoreStep ==
  \A s \in NetStates :
    ( /\ NetEvent(s, {"ind"})
      /\ ~ind.isConnected
      /\ s.isConnected /\ s.isInternetReachable # "false"
      /\ IndAutoSync
      /\ ind.pendingCount > 0 /\ GetPendingCount(queue) > 0
      /\ ~ind.syncing /\ FreeSlots(drains) # {} )
    => \E d \in Slots : DrainStarts(d) /\ drains'[d].caller = "indicator"

C25_AutoSyncOnRestore == [][C25_RestoreStep]_vars

\* C28: while the syncing flag of useOffline is false no processQueue call
\* started by its syncQueue is outstanding, also when syncQueue is called
\* again before an earlier call has returned.
C28_FlagAccurate ==
  ~hook.syncing => \A d \in Slots : drains[d].caller # "hook"

\* C26: syncPendingDocuments removes a stored document only after its
\* upload succeeded, attempts every document found at the start of the
\* pass even when earlier uploads fail, and returns counts with
\* synced + failed = total.
C26_PassStep ==
  \A answer \in UploadAnswers :
    PassUpload(answer) =>
      /\ \A image \in Images :
           (KeysOf(docs, image) # {} /\ KeysOf(docs', image) = {})
             => image \in uploaded'
      /\ pass.idx < Len(pass.pendingDocs) => pass'.idx = pass.idx + 1
      /\ pass.idx = Len(pass.pendingDocs) =>
           /\ out'.total = Len(pass.pendingDocs)
           /\ out'.synced + out'.failed = out'.total

C26_RemoveAfterUpload == [][C26_PassStep]_vars

\* C27: a syncPendingDocuments pass never increases the number of
\* offline_document_ entries, and no document is stored under two keys.
C27_PassStep ==
  \A answer \in UploadAnswers :
    PassUpload(answer) =>
      /\ Cardinality(StoredKeys(docs')) <= Cardinality(StoredKeys(docs))
      /\ \A image \in Images : Cardinality(KeysOf(docs', image)) <= 1

C27_NoGrowth == [][C27_PassStep]_vars

\* C29: documents saved for later upload are stored under distinct keys:
\* a document that was saved and has not been uploaded is still stored,
\* also when two are saved in the same millisecond.
C29_NothingOverwritten ==
  \A image \in saved \ uploaded : KeysOf(docs, image) # {}

\* C30: a failed or empty fetch returns the default profile and caches
\* nothing, so that the next call asks the backend again; once a fetched
\* profile is cached every later call of the same process returns it and
\* asks nothing.
C30_ProfileStep ==
  /\ \A response \in ProfileResponses :
       GetWeightingProfile(response) =>
         IF cachedWeightingProfile # Null
         THEN /\ ~profileRequested'
              /\ out' = cachedWeightingProfile
         ELSE /\ profileRequested'
              /\ response.kind # "data" =>
                   /\ out' = DEFAULT_WEIGHTING_PROFILE
                   /\ cachedWeightingProfile' = Null
              /\ response.kind = "data" =>
                   /\ out' = response.data
                   /\ cachedWeightingProfile' = response.data
  /\ (cachedWeightingProfile # Null /\ ~Restart)
       => cachedWeightingProfile' = cachedWeightingProfile

C30_CacheDynamics == [][C30_ProfileStep]_vars

\* a call was answered from the cache, without a request
C30_Witness ==
  /\ cachedWeightingProfile # Null
  /\ out = cachedWeightingProfile
  /\ ~profileRequested

====
